---- MODULE Spec2Model ----
(***************************************************************************)
(* Model of massa's bootstrap graph codec                                  *)
(* (massa-graph/src/bootstrapable_graph.rs) and of the password cipher's   *)
(* decrypt (massa-cipher/src/decrypt.rs).                                  *)
(*                                                                         *)
(* Bytes are the numbers 0..255, a Vec<u8> or a &[u8] is a sequence of     *)
(* them.  The codecs are pure; a call is an action that applies them to    *)
(* inputs drawn in Init.                                                   *)
(***************************************************************************)
EXTENDS Integers, Sequences, FiniteSets, TLC

VARIABLES
    pc,             \* position of the driver of the specification
    config,         \* the ceilings the deserializer is constructed with
    serializer,     \* the BootstrapableGraphSerializer instance
    deserializer,   \* the BootstrapableGraphDeserializer instance
    value,          \* the BootstrapableGraph given to serialize
    buffer0,        \* the caller's buffer before serialize
    buffer,         \* the caller's buffer (serialize appends to it)
    ser,            \* what serialize returned
    kind,           \* how the input of deserialize was made
    input,          \* the bytes given to deserialize
    de,             \* what deserialize returned
    buffer2,        \* the buffer of the second serialization
    ser2,           \* what the second serialize returned
    cpc,            \* position of the cipher driver
    password,       \* the password a stream is encrypted with
    message,        \* the plaintext
    nonce,          \* the nonce encrypt drew
    stream,         \* what encrypt returned
    how,            \* how the input of decrypt was made
    dpassword,      \* the password given to decrypt
    data,           \* the bytes given to decrypt
    dec,            \* what decrypt returned
    calls           \* the calls in progress on the shared instances, per thread

(***************************************************************************)
(* Bounds of the model.                                                    *)
(***************************************************************************)
\* longest materialised final_blocks vector
MaxBlocks == 3
\* largest max_bootstrap_blocks a deserializer is built with
MaxCeiling == 2
\* thread_count of the protocol (parents per block)
ThreadCount == 2
\* threads that call one serializer and one deserializer at the same time
NumCallers == 2

(***************************************************************************)
(* Sequence helpers.                                                       *)
(***************************************************************************)
Take(s, n) == SubSeq(s, 1, n)
Drop(s, n) == SubSeq(s, n + 1, Len(s))

(***************************************************************************)
(* massa_serialization: variable-length unsigned integers (LEB128, 7 bits  *)
(* per byte, least significant group first, high bit = "more follows").    *)
(***************************************************************************)
RECURSIVE VarIntEncode(_)
VarIntEncode(n) ==
    IF n < 128 THEN <<n>>
    ELSE <<128 + (n % 128)>> \o VarIntEncode(n \div 128)

\* U32VarIntSerializer::serialize / U64VarIntSerializer::serialize
VarIntSerialize(n, buf) == buf \o VarIntEncode(n)

RECURSIVE VarIntDecodeAt(_, _, _, _, _)
VarIntDecodeAt(inp, i, acc, mult, maxlen) ==
    IF i > Len(inp) THEN [ok |-> FALSE, value |-> 0, rest |-> <<>>, err |-> "Insufficient"]
    ELSE LET b == inp[i]
             n == acc + (b % 128) * mult
         IN  IF b < 128
             THEN IF b = 0 /\ i > 1
                  THEN [ok |-> FALSE, value |-> 0, rest |-> <<>>, err |-> "NotMinimal"]
                  ELSE [ok |-> TRUE, value |-> n, rest |-> Drop(inp, i), err |-> ""]
             ELSE IF i = maxlen
                  THEN [ok |-> FALSE, value |-> 0, rest |-> <<>>, err |-> "Overflow"]
                  ELSE VarIntDecodeAt(inp, i + 1, n, mult * 128, maxlen)

\* U32VarIntDeserializer::new(Included(min), Included(max))
U32VarIntDeserializer_new(min, max) == [min |-> min, max |-> max, maxlen |-> 5]
\* U64VarIntDeserializer::new(Included(min), Included(max))
U64VarIntDeserializer_new(min, max) == [min |-> min, max |-> max, maxlen |-> 10]

\* U32VarIntDeserializer::deserialize / U64VarIntDeserializer::deserialize:
\* a decoded value outside the inclusive range is an error
VarIntDeserialize(self, inp) ==
    LET r == VarIntDecodeAt(inp, 1, 0, 1, self.maxlen)
    IN  IF ~r.ok THEN r
        ELSE IF r.value < self.min \/ r.value > self.max
             THEN [ok |-> FALSE, value |-> 0, rest |-> <<>>, err |-> "OutOfRange"]
             ELSE r

(***************************************************************************)
(* massa_hash: a digest is HASH_SIZE_BYTES raw bytes.                      *)
(***************************************************************************)
HASH_SIZE_BYTES == 32

Digest(b) == [i \in 1..HASH_SIZE_BYTES |-> b]

HashDeserialize(inp) ==
    IF Len(inp) < HASH_SIZE_BYTES
    THEN [ok |-> FALSE, value |-> <<>>, rest |-> <<>>, err |-> "MissingContent"]
    ELSE [ok |-> TRUE, value |-> Take(inp, HASH_SIZE_BYTES),
          rest |-> Drop(inp, HASH_SIZE_BYTES), err |-> ""]

(***************************************************************************)
(* export_active_block: one final block on the wire is                     *)
(*   Digest(id) Parent{thread_count} Bool(is_final) BlockPayload           *)
(*   Parent := Digest(block_id) VarUint64(period)                          *)
(* The payload is opaque to the graph codec; it is modelled as a           *)
(* count-prefixed sequence of one-byte operations, the count bounded by    *)
(* max_operations_per_block.                                               *)
(***************************************************************************)
RECURSIVE ParentsSerialize(_)
ParentsSerialize(ps) ==
    IF ps = <<>> THEN <<>>
    ELSE Head(ps).id \o VarIntEncode(Head(ps).period) \o ParentsSerialize(Tail(ps))

\* ExportActiveBlockSerializer::serialize
ExportActiveBlockSerialize(b, buf) ==
    buf \o b.id \o ParentsSerialize(b.parents)
        \o <<IF b.is_final THEN 1 ELSE 0>>
        \o VarIntEncode(Len(b.payload)) \o b.payload

\* ExportActiveBlockDeserializer::new
ExportActiveBlockDeserializer_new(thread_count, endorsement_count, max_operations_per_block, max_datastore_value_length, max_function_name_length, max_parameters_size) ==
    [thread_count |-> thread_count,
     endorsement_count |-> endorsement_count,
     max_datastore_value_length |-> max_datastore_value_length,
     max_function_name_length |-> max_function_name_length,
     max_parameters_size |-> max_parameters_size,
     period_deserializer |-> U64VarIntDeserializer_new(0, 2147483647),
     operation_count_deserializer |-> U32VarIntDeserializer_new(0, max_operations_per_block)]

BlockErr(e) == [ok |-> FALSE, value |-> <<>>, rest |-> <<>>, err |-> e]

RECURSIVE ParentsDeserialize(_, _, _, _)
ParentsDeserialize(self, inp, k, acc) ==
    IF k = 0 THEN [ok |-> TRUE, value |-> acc, rest |-> inp, err |-> ""]
    ELSE LET h == HashDeserialize(inp)
         IN  IF ~h.ok THEN BlockErr("Failed parent id deserialization")
             ELSE LET p == VarIntDeserialize(self.period_deserializer, h.rest)
                  IN  IF ~p.ok THEN BlockErr("Failed parent period deserialization")
                      ELSE ParentsDeserialize(self, p.rest, k - 1,
                               Append(acc, [id |-> h.value, period |-> p.value]))

\* ExportActiveBlockDeserializer::deserialize
ExportActiveBlockDeserialize(self, inp) ==
    LET h == HashDeserialize(inp)
    IN  IF ~h.ok THEN BlockErr("Failed id deserialization")
        ELSE
        LET ps == ParentsDeserialize(self, h.rest, self.thread_count, <<>>)
        IN  IF ~ps.ok THEN ps
            ELSE IF ps.rest = <<>> THEN BlockErr("Failed is_final deserialization")
            ELSE IF Head(ps.rest) \notin {0, 1} THEN BlockErr("Failed is_final deserialization")
            ELSE
            LET n == VarIntDeserialize(self.operation_count_deserializer, Tail(ps.rest))
            IN  IF ~n.ok THEN BlockErr("Failed operation count deserialization")
                ELSE IF Len(n.rest) < n.value THEN BlockErr("Failed operation deserialization")
                ELSE [ok |-> TRUE,
                      value |-> [id |-> h.value, parents |-> ps.value,
                                 is_final |-> (Head(ps.rest) = 1),
                                 payload |-> Take(n.rest, n.value)],
                      rest |-> Drop(n.rest, n.value), err |-> ""]

(***************************************************************************)
(* Vec<ExportActiveBlock>.  len() is a usize: it is kept as two 32-bit     *)
(* halves so that lengths above u32::MAX exist in the model.  A vector     *)
(* lists its elements in items; len_hi > 0 stands for len_hi * 2^32        *)
(* further elements that are not listed (no operation reads them before    *)
(* the length is converted).                                               *)
(***************************************************************************)
Vec(items) == [items |-> items, len_hi |-> 0]

VecLen(v) == [hi |-> v.len_hi, lo |-> Len(v.items)]

\* usize -> u32 by `as`: keeps the low 32 bits
WrapU32(n) == [ok |-> TRUE, value |-> n.lo]

\* usize -> u32 by try_into(): fails when the value does not fit
TryIntoU32(n) ==
    IF n.hi = 0 THEN [ok |-> TRUE, value |-> n.lo] ELSE [ok |-> FALSE, value |-> 0]

\* struct BootstrapableGraph
BootstrapableGraph(final_blocks) == [final_blocks |-> final_blocks]

(***************************************************************************)
(* BootstrapableGraphSerializer                                            *)
(***************************************************************************)
BootstrapableGraphSerializer_new ==
    [block_count_serializer |-> "U32VarIntSerializer",
     export_active_block_serializer |-> "ExportActiveBlockSerializer"]

\* the state of one serialize call: where it is, the next block, the buffer
SerializeStart(buf) == [pc |-> "count", i |-> 1, buffer |-> buf, result |-> ""]

\* the count written as four fixed bytes, whatever the length
CountWrite_fixed(self, val, st) ==
    LET items == val.final_blocks.items
    IN  [st EXCEPT !.buffer = st.buffer \o <<Len(items) % 256, 0, 0, 0>>,
                   !.pc = IF items = <<>> THEN "done" ELSE "blocks",
                   !.result = IF items = <<>> THEN "Ok" ELSE ""]

\* the block count: final_blocks.len().try_into() to u32, then its varint
CountWrite(self, val, st) ==
    LET items == val.final_blocks.items
        c == TryIntoU32(VecLen(val.final_blocks))
    IN  IF ~c.ok
        THEN [st EXCEPT !.pc = "done", !.result = "NumberTooBig(Too many final blocks)"]
        ELSE [st EXCEPT !.buffer = VarIntSerialize(c.value, st.buffer),
                        !.pc = IF items = <<>> THEN "done" ELSE "blocks",
                        !.result = IF items = <<>> THEN "Ok" ELSE ""]

\* one turn of the loop over final_blocks
BlockWrite(self, val, st) ==
    LET items == val.final_blocks.items
    IN  [st EXCEPT !.buffer = ExportActiveBlockSerialize(items[st.i], st.buffer),
                   !.i = st.i + 1,
                   !.pc = IF st.i = Len(items) THEN "done" ELSE "blocks",
                   !.result = IF st.i = Len(items) THEN "Ok" ELSE ""]

\* one step of serialize; &self is not written
serialize_step(self, val, st) ==
    [self |-> self,
     st |-> IF st.pc = "count" THEN CountWrite(self, val, st) ELSE BlockWrite(self, val, st)]

RECURSIVE serialize_run(_, _, _)
serialize_run(self, val, st) ==
    IF st.pc = "done" THEN st
    ELSE LET r == serialize_step(self, val, st) IN serialize_run(r.self, val, r.st)

\* Serializer<BootstrapableGraph>::serialize(&self, value, buffer)
serialize(self, val, buf) ==
    LET st == serialize_run(self, val, SerializeStart(buf))
    IN  [result |-> st.result, buffer |-> st.buffer]

(***************************************************************************)
(* BootstrapableGraphDeserializer                                          *)
(***************************************************************************)
\* a deserializer whose block count is bounded by the width of u32 only
BootstrapableGraphDeserializer_new_unbounded(thread_count, endorsement_count, max_bootstrap_blocks, max_datastore_value_length, max_function_name_length, max_parameters_size, max_operations_per_block) ==
    [block_count_deserializer |-> U32VarIntDeserializer_new(0, 2147483647),
     export_active_block_deserializer |->
         ExportActiveBlockDeserializer_new(thread_count, endorsement_count,
             max_operations_per_block, max_datastore_value_length,
             max_function_name_length, max_parameters_size)]

BootstrapableGraphDeserializer_new(thread_count, endorsement_count, max_bootstrap_blocks, max_datastore_value_length, max_function_name_length, max_parameters_size, max_operations_per_block) ==
    [block_count_deserializer |-> U32VarIntDeserializer_new(0, max_bootstrap_blocks),
     export_active_block_deserializer |->
         ExportActiveBlockDeserializer_new(thread_count, endorsement_count,
             max_operations_per_block, max_datastore_value_length,
             max_function_name_length, max_parameters_size)]

\* the state of one deserialize call (nom's length_count): the input left,
\* the count read, the elements collected, the element decoder's calls
DeserializeStart(buf) ==
    [pc |-> "count", input |-> buf, count |-> 0, res |-> <<>>,
     ok |-> FALSE, err |-> "", count_read |-> FALSE, attempts |-> 0]

\* length_count's first parser: the block count, within [0, max_bootstrap_blocks]
CountStep(self, st) ==
    LET r == VarIntDeserialize(self.block_count_deserializer, st.input)
    IN  IF ~r.ok
        THEN [st EXCEPT !.pc = "done", !.err = "Failed final block count deserialization"]
        ELSE [st EXCEPT !.count = r.value, !.input = r.rest, !.count_read = TRUE,
                        !.pc = IF r.value = 0 THEN "done" ELSE "elements",
                        !.ok = (r.value = 0)]

\* the elements collected in reverse order
ElementStep_prepend(self, st) ==
    LET r == ExportActiveBlockDeserialize(self.export_active_block_deserializer, st.input)
    IN  IF ~r.ok
        THEN [st EXCEPT !.pc = "done", !.attempts = st.attempts + 1,
                        !.err = "Failed export_active_block deserialization"]
        ELSE [st EXCEPT !.res = <<r.value>> \o st.res, !.input = r.rest,
                        !.attempts = st.attempts + 1,
                        !.pc = IF Len(st.res) + 1 = st.count THEN "done" ELSE "elements",
                        !.ok = (Len(st.res) + 1 = st.count)]

\* a failing element taken as the end of the sequence
ElementStep_lenient(self, st) ==
    LET r == ExportActiveBlockDeserialize(self.export_active_block_deserializer, st.input)
    IN  IF ~r.ok
        THEN [st EXCEPT !.pc = "done", !.attempts = st.attempts + 1, !.ok = TRUE]
        ELSE [st EXCEPT !.res = Append(st.res, r.value), !.input = r.rest,
                        !.attempts = st.attempts + 1,
                        !.pc = IF Len(st.res) + 1 = st.count THEN "done" ELSE "elements",
                        !.ok = (Len(st.res) + 1 = st.count)]

\* elements decoded for as long as they decode, past the count
ElementStep_greedy(self, st) ==
    LET r == ExportActiveBlockDeserialize(self.export_active_block_deserializer, st.input)
    IN  IF ~r.ok
        THEN [st EXCEPT !.pc = "done", !.attempts = st.attempts + 1,
                        !.ok = (Len(st.res) >= st.count),
                        !.err = IF Len(st.res) >= st.count THEN ""
                                ELSE "Failed export_active_block deserialization"]
        ELSE [st EXCEPT !.res = Append(st.res, r.value), !.input = r.rest,
                        !.attempts = st.attempts + 1]

\* one turn of length_count's loop: the element parser on the input left;
\* its error ends the call, its value is pushed and the input advanced
ElementStep(self, st) ==
    LET r == ExportActiveBlockDeserialize(self.export_active_block_deserializer, st.input)
    IN  IF ~r.ok
        THEN [st EXCEPT !.pc = "done", !.attempts = st.attempts + 1,
                        !.err = "Failed export_active_block deserialization"]
        ELSE [st EXCEPT !.res = Append(st.res, r.value), !.input = r.rest,
                        !.attempts = st.attempts + 1,
                        !.pc = IF Len(st.res) + 1 = st.count THEN "done" ELSE "elements",
                        !.ok = (Len(st.res) + 1 = st.count)]

\* a deserializer that keeps the number of elements still to read in itself
Remaining(self) == IF "remaining" \in DOMAIN self THEN self.remaining ELSE 0

deserialize_step_stateful(self, st) ==
    IF st.pc = "count"
    THEN LET c == CountStep(self, st)
         IN  [self |-> [block_count_deserializer |-> self.block_count_deserializer,
                        export_active_block_deserializer |-> self.export_active_block_deserializer,
                        remaining |-> c.count],
              st |-> c]
    ELSE LET e == ElementStep(self, st)
             left == Remaining(self) - 1
         IN  [self |-> [block_count_deserializer |-> self.block_count_deserializer,
                        export_active_block_deserializer |-> self.export_active_block_deserializer,
                        remaining |-> left],
              st |-> IF e.err # "" THEN e
                     ELSE [e EXCEPT !.pc = IF left <= 0 THEN "done" ELSE "elements",
                                    !.ok = (left <= 0)]]

\* one step of deserialize; &self is not written
deserialize_step(self, st) ==
    [self |-> self,
     st |-> IF st.pc = "count" THEN CountStep(self, st) ELSE ElementStep(self, st)]

RECURSIVE deserialize_run(_, _)
deserialize_run(self, st) ==
    IF st.pc = "done" THEN st
    ELSE LET r == deserialize_step(self, st) IN deserialize_run(r.self, r.st)

\* what the call returns: Ok((rest, graph)) or Err; an error carries no graph
DeserializeOutcome(st) ==
    [ok |-> st.ok,
     rest |-> IF st.ok THEN st.input ELSE <<>>,
     value |-> BootstrapableGraph(Vec(IF st.ok THEN st.res ELSE <<>>)),
     err |-> st.err,
     count_read |-> st.count_read,
     decoded |-> Len(st.res),
     attempts |-> st.attempts]

\* Deserializer<BootstrapableGraph>::deserialize(&self, buffer)
deserialize(self, buf) == DeserializeOutcome(deserialize_run(self, DeserializeStart(buf)))

(***************************************************************************)
(* massa-cipher.  The key is the digest of the password; the stream is     *)
(* the nonce followed by the AEAD's output, which is the encrypted message *)
(* followed by the authentication tag.                                     *)
(***************************************************************************)
NONCE_SIZE == 12
TAG_SIZE == 16

RECURSIVE SumBytes(_)
SumBytes(q) == IF q = <<>> THEN 0 ELSE Head(q) + SumBytes(Tail(q))

\* Hash::compute_from(bytes).to_bytes(): a digest that depends on every byte
HashCompute(bytes) ==
    [i \in 1..HASH_SIZE_BYTES |-> (SumBytes(bytes) * 31 + Len(bytes) * 7 + i) % 256]

\* Aes256GcmSiv: the key stream and the tag of a message under (key, nonce)
KeyStream(key, n, i) == (key[1] * 3 + key[HASH_SIZE_BYTES] + n[1] * 5 + n[NONCE_SIZE] + i * 13) % 256

AeadTag(key, n, m) ==
    [j \in 1..TAG_SIZE |-> (SumBytes(m) * 3 + Len(m) * 17 + key[1] + n[1] * 7 + n[NONCE_SIZE] + j) % 256]

\* Aead::encrypt(nonce, plaintext)
AeadEncrypt(key, n, m) ==
    [i \in 1..Len(m) |-> (m[i] + KeyStream(key, n, i)) % 256] \o AeadTag(key, n, m)

\* Aead::decrypt(nonce, ciphertext): an input shorter than the tag, or one
\* whose tag does not authenticate the message, is an error
AeadDecrypt(key, n, ct) ==
    IF Len(ct) < TAG_SIZE THEN [ok |-> FALSE, value |-> <<>>]
    ELSE LET len == Len(ct) - TAG_SIZE
             m == [i \in 1..len |-> (ct[i] + 256 - KeyStream(key, n, i)) % 256]
         IN  IF AeadTag(key, n, m) = Drop(ct, len)
             THEN [ok |-> TRUE, value |-> m]
             ELSE [ok |-> FALSE, value |-> <<>>]

\* encrypt(password, data) with the nonce it drew
encrypt(pwd, n, m) == n \o AeadEncrypt(HashCompute(pwd), n, m)

DecryptResult(ok, val, err, called, n, ct) ==
    [ok |-> ok, value |-> val, err |-> err,
     aead_called |-> called, aead_nonce |-> n, aead_ciphertext |-> ct]

NoDecrypt == DecryptResult(FALSE, <<>>, "", FALSE, <<>>, <<>>)

\* decrypt with the nonce demanded only of inputs longer than it
decrypt_strict(pwd, d) ==
    IF Len(d) <= NONCE_SIZE
    THEN DecryptResult(FALSE, <<>>, "Missing nonce", FALSE, <<>>, <<>>)
    ELSE LET n == Take(d, NONCE_SIZE)
             r == AeadDecrypt(HashCompute(pwd), n, Take(d, NONCE_SIZE))
         IN  IF r.ok THEN DecryptResult(TRUE, r.value, "", TRUE, n, Take(d, NONCE_SIZE))
             ELSE DecryptResult(FALSE, <<>>, "Wrong password", TRUE, n, Take(d, NONCE_SIZE))

\* decrypt(password, data): data.get(..12) is None when data is shorter than
\* 12 bytes; the same slice data.get(..12) is given as nonce and as ciphertext
decrypt(pwd, d) ==
    LET cipher_key == HashCompute(pwd)
    IN  IF Len(d) < NONCE_SIZE
        THEN DecryptResult(FALSE, <<>>, "Missing nonce", FALSE, <<>>, <<>>)
        ELSE LET n == Take(d, NONCE_SIZE)
                 content == Take(d, NONCE_SIZE)
                 r == AeadDecrypt(cipher_key, n, content)
             IN  IF r.ok THEN DecryptResult(TRUE, r.value, "", TRUE, n, content)
                 ELSE DecryptResult(FALSE, <<>>, "Wrong password", TRUE, n, content)

(***************************************************************************)
(* Inputs of the calls.                                                    *)
(***************************************************************************)
\* a block whose parents are thread_count times the same (BlockId, period)
Block(idb, parentb, period, final, ops) ==
    [id |-> Digest(idb),
     parents |-> [t \in 1..ThreadCount |-> [id |-> Digest(parentb), period |-> period]],
     is_final |-> final,
     payload |-> ops]

Blocks ==
    { Block(17, 17, 7, TRUE, <<>>),
      Block(167, 1, 300, FALSE, <<5>>) }

RECURSIVE SeqsUpTo(_, _)
SeqsUpTo(S, n) ==
    IF n = 0 THEN {<<>>}
    ELSE LET shorter == SeqsUpTo(S, n - 1)
         IN  shorter \cup {Append(q, x) : q \in {r \in shorter : Len(r) = n - 1}, x \in S}

\* graphs whose final_blocks are listed, and graphs with more than u32::MAX
\* final blocks
Graphs ==
    {BootstrapableGraph(Vec(q)) : q \in SeqsUpTo(Blocks, MaxBlocks)}
    \cup {BootstrapableGraph([items |-> q, len_hi |-> 1]) :
             q \in SeqsUpTo({Block(17, 17, 7, TRUE, <<>>)}, 1)}

\* the ceilings of a protocol version
Configs ==
    [thread_count : {ThreadCount}, endorsement_count : {9},
     max_bootstrap_blocks : 0..MaxCeiling, max_datastore_value_length : {10},
     max_function_name_length : {100}, max_parameters_size : {1000},
     max_operations_per_block : {0, 1}]

NewDeserializer(c) ==
    BootstrapableGraphDeserializer_new(c.thread_count, c.endorsement_count,
        c.max_bootstrap_blocks, c.max_datastore_value_length,
        c.max_function_name_length, c.max_parameters_size, c.max_operations_per_block)

\* what a caller's buffer may hold before serialize
InitialBuffers == {<<>>, <<255, 1>>}

\* bytes that follow a serialized graph in a longer stream
Trailers ==
    {<<0>>, <<1, 2, 3>>, ExportActiveBlockSerialize(Block(17, 17, 7, TRUE, <<>>), <<>>)}

\* buffers a peer with other ceilings, or a hostile peer, sends: a count,
\* then whatever follows it
CraftedCounts == {1, MaxCeiling + 1, 200, 268435456}

CraftedBuffers ==
    {VarIntEncode(c) \o body :
        c \in CraftedCounts,
        body \in {<<>>, <<0>>,
                  ExportActiveBlockSerialize(Block(17, 17, 7, TRUE, <<>>), <<>>),
                  ExportActiveBlockSerialize(Block(17, 17, 7, TRUE, <<>>),
                      ExportActiveBlockSerialize(Block(167, 1, 300, FALSE, <<5>>), <<>>))}}
    \cup {<<128, 0>>, <<255, 255, 255, 255, 255, 1>>, <<128>>}

NoOutcome == DeserializeOutcome(DeserializeStart(<<>>))

\* the bytes serialize appended to the caller's buffer
Produced == Drop(buffer, Len(buffer0))

(***************************************************************************)
(* The codec specification: one serialize call, one deserialize call on    *)
(* bytes derived from its output (or on a crafted buffer), and a second    *)
(* serialize of the decoded graph.                                         *)
(***************************************************************************)
codecVars == <<pc, config, serializer, deserializer, value, buffer0, buffer, ser, kind,
               input, de, buffer2, ser2>>
cipherVars == <<cpc, password, message, nonce, stream, how, dpassword, data, dec>>
vars == <<codecVars, cipherVars, calls>>

\* the instances after construction
Constructed ==
    /\ config \in Configs
    /\ serializer = BootstrapableGraphSerializer_new
    /\ deserializer = NewDeserializer(config)

CallIdle ==
    /\ value = BootstrapableGraph(Vec(<<>>))
    /\ buffer0 = <<>>
    /\ buffer = <<>>
    /\ ser = ""
    /\ kind = ""
    /\ input = <<>>
    /\ de = NoOutcome
    /\ buffer2 = <<>>
    /\ ser2 = ""

\* the codec at rest, in the specifications that do not drive it
CodecIdle ==
    /\ pc = "idle"
    /\ config = CHOOSE c \in Configs :
                    c.max_bootstrap_blocks = MaxCeiling /\ c.max_operations_per_block = 1
    /\ serializer = BootstrapableGraphSerializer_new
    /\ deserializer = NewDeserializer(config)
    /\ calls = <<>>
    /\ CallIdle

CipherIdle ==
    /\ cpc = "idle"
    /\ password = <<>>
    /\ message = <<>>
    /\ nonce = <<>>
    /\ stream = <<>>
    /\ how = ""
    /\ dpassword = <<>>
    /\ data = <<>>
    /\ dec = NoDecrypt

Init ==
    /\ pc = "start"
    /\ Constructed
    /\ value \in Graphs
    /\ buffer0 \in InitialBuffers
    /\ buffer = buffer0
    /\ ser = ""
    /\ kind = ""
    /\ input = <<>>
    /\ de = NoOutcome
    /\ buffer2 = <<>>
    /\ ser2 = ""
    /\ CipherIdle
    /\ calls = <<>>

SerializeCall ==
    /\ pc = "start"
    /\ LET r == serialize(serializer, value, buffer)
       IN  /\ buffer' = r.buffer
           /\ ser' = r.result
    /\ pc' = "serialized"
    /\ UNCHANGED <<config, serializer, deserializer, value, buffer0, kind, input, de,
                   buffer2, ser2, cipherVars, calls>>

DeserializeOn(k, inp) ==
    /\ kind' = k
    /\ input' = inp
    /\ de' = deserialize(deserializer, inp)
    /\ pc' = "deserialized"
    /\ UNCHANGED <<config, serializer, deserializer, value, buffer0, buffer, ser,
                   buffer2, ser2, cipherVars, calls>>

DeserializeWhole ==
    /\ pc = "serialized" /\ ser = "Ok"
    /\ DeserializeOn("whole", Produced)

DeserializePrefix ==
    /\ pc = "serialized" /\ ser = "Ok"
    /\ \E n \in 0..(Len(Produced) - 1) : DeserializeOn("prefix", Take(Produced, n))

DeserializeTrailing ==
    /\ pc = "serialized" /\ ser = "Ok"
    /\ \E t \in Trailers : DeserializeOn("trailing", Produced \o t)

DeserializeCrafted ==
    /\ pc = "start"
    /\ \E b \in CraftedBuffers : DeserializeOn("crafted", b)

Reserialize ==
    /\ pc = "deserialized" /\ de.ok
    /\ LET r == serialize(serializer, de.value, <<>>)
       IN  /\ buffer2' = r.buffer
           /\ ser2' = r.result
    /\ pc' = "reserialized"
    /\ UNCHANGED <<config, serializer, deserializer, value, buffer0, buffer, ser, kind,
                   input, de, cipherVars, calls>>

Next ==
    \/ SerializeCall
    \/ DeserializeWhole
    \/ DeserializePrefix
    \/ DeserializeTrailing
    \/ DeserializeCrafted
    \/ Reserialize

Spec == Init /\ [][Next]_vars

(***************************************************************************)
(* Properties of the codec.                                                *)
(***************************************************************************)
Returned == pc \in {"deserialized", "reserialized"}

\* the graph is one the deserializer's ceilings admit
WithinCeilings(g, c) ==
    /\ g.final_blocks.len_hi = 0
    /\ Len(g.final_blocks.items) <= c.max_bootstrap_blocks
    /\ \A i \in 1..Len(g.final_blocks.items) :
          /\ Len(g.final_blocks.items[i].parents) = c.thread_count
          /\ Len(g.final_blocks.items[i].payload) <= c.max_operations_per_block

\* the wire form of a sequence of blocks, first block first
RECURSIVE BlocksWire(_)
BlocksWire(items) ==
    IF items = <<>> THEN <<>>
    ELSE ExportActiveBlockSerialize(Head(items), <<>>) \o BlocksWire(Tail(items))

GraphWire(items) == VarIntEncode(Len(items)) \o BlocksWire(items)

\* C1 (round trip): for a graph within the ceilings, deserialize of the
\* serialized bytes succeeds with the same final_blocks in the same order
\* and an empty rest, and serializing the result again gives the same bytes.
C1_RoundTrip ==
    (Returned /\ kind = "whole" /\ WithinCeilings(value, config)) =>
        /\ de.ok
        /\ de.value.final_blocks = value.final_blocks
        /\ de.rest = <<>>
        /\ pc = "reserialized" => (ser2 = "Ok" /\ buffer2 = Produced)

C1_Witness ==
    /\ pc = "reserialized" /\ kind = "whole" /\ WithinCeilings(value, config)
    /\ Len(value.final_blocks.items) = 2
    /\ value.final_blocks.items[1] # value.final_blocks.items[2]
    /\ de.value.final_blocks = value.final_blocks
    /\ buffer2 = Produced

\* the count field at the start of a buffer, read without any bound
LeadingCount(inp) == VarIntDecodeAt(inp, 1, 0, 1, 5)

\* C2 (bound enforcement): a buffer whose leading count exceeds
\* max_bootstrap_blocks is rejected at the count field: the count is not
\* accepted, no element decoder runs, no element is collected.
C2_BoundEnforced ==
    (Returned /\ LeadingCount(input).ok
              /\ LeadingCount(input).value > config.max_bootstrap_blocks) =>
        /\ ~de.ok
        /\ de.err = "Failed final block count deserialization"
        /\ ~de.count_read
        /\ de.attempts = 0
        /\ de.decoded = 0

C2_Witness ==
    /\ Returned /\ LeadingCount(input).ok
    /\ LeadingCount(input).value = config.max_bootstrap_blocks + 1
    /\ Len(input) > HASH_SIZE_BYTES
    /\ ~de.ok /\ de.attempts = 0

\* C3 (truncation safety): deserialize of a strict prefix of a serialized
\* graph is an error, and the error carries no graph.
C3_TruncationFails ==
    (Returned /\ kind = "prefix") =>
        /\ ~de.ok
        /\ de.value.final_blocks.items = <<>>

C3_Witness ==
    /\ Returned /\ kind = "prefix" /\ WithinCeilings(value, config)
    /\ de.count_read /\ de.decoded = 1 /\ de.attempts = 2
    /\ ~de.ok

\* C7 (empty graph): serializing final_blocks = [] into an empty buffer
\* writes the single byte 0, the varint of 0; deserializing it gives
\* final_blocks = [] and no remaining bytes.
C7_EmptyGraph ==
    (ser # "" /\ value.final_blocks = Vec(<<>>) /\ buffer0 = <<>>) =>
        /\ ser = "Ok"
        /\ buffer = <<0>>
        /\ buffer = VarIntEncode(0)
        /\ (Returned /\ kind = "whole") =>
               (de.ok /\ de.value.final_blocks = Vec(<<>>) /\ de.rest = <<>>)

C7_Witness ==
    /\ Returned /\ kind = "whole"
    /\ value.final_blocks = Vec(<<>>) /\ buffer0 = <<>>
    /\ de.ok /\ de.rest = <<>>

\* C9 (framing and exact consumption): serialize appends the count and then
\* the blocks in order; a successful deserialize has run the element
\* decoder exactly count times and returns as rest the bytes after the last
\* element, so that input = wire form of the result followed by rest; a
\* failing one stopped at the first element that failed.
C9_Framing ==
    /\ ser = "Ok" => buffer = buffer0 \o GraphWire(value.final_blocks.items)
    /\ (Returned /\ de.ok) =>
          /\ de.attempts = Len(de.value.final_blocks.items)
          /\ LeadingCount(input).value = Len(de.value.final_blocks.items)
          /\ input = GraphWire(de.value.final_blocks.items) \o de.rest
    /\ (Returned /\ kind = "trailing" /\ WithinCeilings(value, config)) =>
          /\ de.ok
          /\ de.value.final_blocks = value.final_blocks
          /\ de.rest = Drop(input, Len(Produced))
    /\ (Returned /\ ~de.ok /\ de.count_read) =>
          /\ de.attempts = de.decoded + 1
          /\ de.attempts <= LeadingCount(input).value

C9_Witness ==
    /\ Returned /\ kind = "trailing" /\ WithinCeilings(value, config)
    /\ Len(value.final_blocks.items) = 2
    /\ de.ok /\ de.attempts = 2
    /\ Len(de.rest) > HASH_SIZE_BYTES
    /\ de.rest = Drop(input, Len(Produced))

\* C10 (serialization overflow): a final_blocks length that does not fit
\* u32 makes serialize return NumberTooBig("Too many final blocks") with
\* the caller's buffer as it was.
C10_Overflow ==
    (ser # "" /\ value.final_blocks.len_hi > 0) =>
        /\ ser = "NumberTooBig(Too many final blocks)"
        /\ buffer = buffer0

C10_Witness ==
    /\ pc = "serialized" /\ value.final_blocks.len_hi > 0
    /\ value.final_blocks.items # <<>> /\ buffer0 # <<>>
    /\ ser = "NumberTooBig(Too many final blocks)"
    /\ buffer = buffer0

(***************************************************************************)
(* The cipher specification: a message is encrypted under a password and   *)
(* a nonce; decrypt is given the stream, a prefix of it, the stream with   *)
(* one byte changed, or the stream and another password.                   *)
(***************************************************************************)
Passwords == {<<112>>, <<113, 119>>}

Messages == {<<>>, <<7>>, <<7, 200>>, [i \in 1..NONCE_SIZE |-> i]}

Nonces == {[i \in 1..NONCE_SIZE |-> 0], [i \in 1..NONCE_SIZE |-> 16 * i]}

CipherInit ==
    /\ CodecIdle
    /\ cpc = "start"
    /\ password \in Passwords
    /\ message \in Messages
    /\ nonce = <<>>
    /\ stream = <<>>
    /\ how = ""
    /\ dpassword = <<>>
    /\ data = <<>>
    /\ dec = NoDecrypt

\* encrypt draws a nonce and returns the stream
Encrypt ==
    /\ cpc = "start"
    /\ \E n \in Nonces :
          /\ nonce' = n
          /\ stream' = encrypt(password, n, message)
    /\ cpc' = "encrypted"
    /\ UNCHANGED <<password, message, how, dpassword, data, dec, codecVars, calls>>

DecryptOn(h, pwd, d) ==
    /\ how' = h
    /\ dpassword' = pwd
    /\ data' = d
    /\ dec' = decrypt(pwd, d)
    /\ cpc' = "decrypted"
    /\ UNCHANGED <<password, message, nonce, stream, codecVars, calls>>

DecryptWhole ==
    /\ cpc = "encrypted"
    /\ DecryptOn("whole", password, stream)

DecryptPrefix ==
    /\ cpc = "encrypted"
    /\ \E n \in 0..(Len(stream) - 1) : DecryptOn("prefix", password, Take(stream, n))

DecryptTampered ==
    /\ cpc = "encrypted"
    /\ \E i \in 1..Len(stream) :
          DecryptOn("tampered", password, [stream EXCEPT ![i] = (stream[i] + 1) % 256])

DecryptWrongPassword ==
    /\ cpc = "encrypted"
    /\ \E p \in Passwords \ {password} : DecryptOn("wrong password", p, stream)

CipherNext ==
    \/ Encrypt
    \/ DecryptWhole
    \/ DecryptPrefix
    \/ DecryptTampered
    \/ DecryptWrongPassword

CipherSpec == CipherInit /\ [][CipherNext]_vars

\* C4 (cipher round trip): decrypt(p, encrypt(p, m)) returns Ok(m).
C4_CipherRoundTrip ==
    (cpc = "decrypted" /\ how = "whole") => (dec.ok /\ dec.value = message)

\* C5 (what is decrypted): the AEAD is given data[0..12] as nonce and
\* data[12..] as ciphertext.
C5_CiphertextAfterNonce ==
    (cpc = "decrypted" /\ dec.aead_called) =>
        /\ dec.aead_nonce = Take(data, NONCE_SIZE)
        /\ dec.aead_ciphertext = Drop(data, NONCE_SIZE)

\* C6 (missing nonce): an input shorter than 12 bytes gives the error
\* "Missing nonce" without the AEAD being called; an input of 12 bytes or
\* more never gives that error.
C6_MissingNonce ==
    cpc = "decrypted" =>
        IF Len(data) < 12
        THEN ~dec.ok /\ dec.err = "Missing nonce" /\ ~dec.aead_called
        ELSE dec.err # "Missing nonce" /\ dec.aead_called

C6_Witness ==
    /\ cpc = "decrypted" /\ Len(data) = 11
    /\ dec.err = "Missing nonce" /\ ~dec.aead_called

(***************************************************************************)
(* The concurrent specification: NumCallers threads call serialize or      *)
(* deserialize on the same two instances, each on a buffer of its own; a   *)
(* step of a thread is the count or one element of its call.               *)
(***************************************************************************)
Callers == 1..NumCallers

B1 == Block(17, 17, 7, TRUE, <<>>)
B2 == Block(167, 1, 300, FALSE, <<5>>)

SerializeJobs ==
    {[op |-> "serialize", val |-> BootstrapableGraph(Vec(q)), buf |-> b] :
        q \in {<<>>, <<B1>>, <<B2, B1>>}, b \in {<<>>}}

DeserializeJobs ==
    {[op |-> "deserialize", val |-> BootstrapableGraph(Vec(<<>>)), buf |-> b] :
        b \in {GraphWire(<<B1>>), GraphWire(<<B1, B2>>) \o <<9>>,
               Take(GraphWire(<<B2, B1>>), 2 * HASH_SIZE_BYTES)}}

CallOf(job) ==
    [op |-> job.op, val |-> job.val, buf |-> job.buf,
     sst |-> SerializeStart(job.buf), dst |-> DeserializeStart(job.buf)]

CallDone(c) == IF c.op = "serialize" THEN c.sst.pc = "done" ELSE c.dst.pc = "done"

ConcInit ==
    /\ pc = "concurrent"
    /\ config = CHOOSE c \in Configs :
                    c.max_bootstrap_blocks = MaxCeiling /\ c.max_operations_per_block = 1
    /\ serializer = BootstrapableGraphSerializer_new
    /\ deserializer = NewDeserializer(config)
    /\ CallIdle
    /\ CipherIdle
    /\ calls \in [Callers -> {CallOf(j) : j \in SerializeJobs \cup DeserializeJobs}]

SerializeStepOf(t) ==
    /\ calls[t].op = "serialize" /\ calls[t].sst.pc # "done"
    /\ LET r == serialize_step(serializer, calls[t].val, calls[t].sst)
       IN  /\ serializer' = r.self
           /\ calls' = [calls EXCEPT ![t].sst = r.st]
    /\ UNCHANGED <<pc, config, deserializer, value, buffer0, buffer, ser, kind, input, de,
                   buffer2, ser2, cipherVars>>

DeserializeStepOf(t) ==
    /\ calls[t].op = "deserialize" /\ calls[t].dst.pc # "done"
    /\ LET r == deserialize_step(deserializer, calls[t].dst)
       IN  /\ deserializer' = r.self
           /\ calls' = [calls EXCEPT ![t].dst = r.st]
    /\ UNCHANGED <<pc, config, serializer, value, buffer0, buffer, ser, kind, input, de,
                   buffer2, ser2, cipherVars>>

ConcNext ==
    \/ \E t \in Callers : SerializeStepOf(t)
    \/ \E t \in Callers : DeserializeStepOf(t)

ConcSpec == ConcInit /\ [][ConcNext]_vars

\* C8 (re-entrancy): the instances are never written, and under every
\* interleaving a finished call has returned what the same call returns
\* when it runs alone on freshly constructed instances.
C8_Reentrant ==
    /\ serializer = BootstrapableGraphSerializer_new
    /\ deserializer = NewDeserializer(config)
    /\ \A t \in DOMAIN calls :
          CallDone(calls[t]) =>
              IF calls[t].op = "serialize"
              THEN [result |-> calls[t].sst.result, buffer |-> calls[t].sst.buffer]
                       = serialize(BootstrapableGraphSerializer_new, calls[t].val, calls[t].buf)
              ELSE DeserializeOutcome(calls[t].dst)
                       = deserialize(NewDeserializer(config), calls[t].buf)

\* two deserialize calls overlapped: the first is between two elements
\* while the second, started after it, has returned a graph
C8_Witness ==
    /\ pc = "concurrent"
    /\ calls[1].op = "deserialize" /\ calls[1].dst.pc = "elements"
    /\ Len(calls[1].dst.res) = 1
    /\ calls[2].op = "deserialize" /\ calls[2].dst.pc = "done" /\ calls[2].dst.ok
    /\ Len(calls[2].dst.res) = 1

====
